---------------------------- MODULE Spec2Model ----------------------------
(***************************************************************************)
(* A model of the sentiment analysis service of app/ml_service.py: the     *)
(* SentimentAnalyzer with its lazily loaded classifier, its irony          *)
(* heuristic, the long-text aggregation and the bounded result cache.      *)
(*                                                                         *)
(* Strings are sequences of one-character strings.  The Russian phrases    *)
(* and texts of the source are written in Latin transliteration; the       *)
(* empty phrase of _IRONY_PHRASES is the empty sequence.  The methods work *)
(* on these character sequences; a string kept in the state (a call's      *)
(* argument, a payload's text, a cache key, a classifier input or label)   *)
(* is written as one TLA+ string by the one-to-one Pack, a run of four or  *)
(* more equal characters c as c{n}.  Confidences are exact rationals       *)
(* [n |-> numerator, d |-> denominator].                                   *)
(***************************************************************************)
EXTENDS Integers, Sequences, FiniteSets, TLC

-----------------------------------------------------------------------------
(* Characters and the str methods the analyzer uses.                       *)

LowerLetters == <<"a","b","c","d","e","f","g","h","i","j","k","l","m","n","o","p","q","r","s","t","u","v","w","x","y","z">>
UpperLetters == <<"A","B","C","D","E","F","G","H","I","J","K","L","M","N","O","P","Q","R","S","T","U","V","W","X","Y","Z">>

Whitespace == {" ", "\t", "\n"}

Letters == {LowerLetters[i] : i \in 1..26} \cup {UpperLetters[i] : i \in 1..26}

Chars == Letters \cup Whitespace \cup {".", "!", "?", ",", "_", "0", "1", "2", "3", "4", "5", "6", "7", "8", "9"}

\* str.lower() / str.upper(), one character
LowerChar == [c \in Chars |-> IF \E i \in 1..26 : UpperLetters[i] = c
                              THEN LowerLetters[CHOOSE i \in 1..26 : UpperLetters[i] = c]
                              ELSE c]
UpperChar == [c \in Chars |-> IF \E i \in 1..26 : LowerLetters[i] = c
                              THEN UpperLetters[CHOOSE i \in 1..26 : LowerLetters[i] = c]
                              ELSE c]

\* str.lower()
Lower(s) == [i \in 1..Len(s) |-> LowerChar[s[i]]]

\* str.upper()
Upper(s) == [i \in 1..Len(s) |-> UpperChar[s[i]]]

\* `p in s` on strings: p occurs in s as a contiguous substring
Contains(p, s) == \E i \in 0..(Len(s) - Len(p)) : SubSeq(s, i + 1, i + Len(p)) = p

RECURSIVE FirstNonSpace(_, _)
\* index of the first non-whitespace character of s at or after i, Len(s)+1 if none
FirstNonSpace(s, i) ==
    IF i > Len(s) THEN i
    ELSE IF s[i] \in Whitespace THEN FirstNonSpace(s, i + 1) ELSE i

RECURSIVE LastNonSpace(_, _)
\* index of the last non-whitespace character of s at or before i, 0 if none
LastNonSpace(s, i) ==
    IF i < 1 THEN 0
    ELSE IF s[i] \in Whitespace THEN LastNonSpace(s, i - 1) ELSE i

\* str.strip()
Strip(s) == SubSeq(s, FirstNonSpace(s, 1), LastNonSpace(s, Len(s)))

\* s[:n]
Prefix(s, n) == SubSeq(s, 1, IF Len(s) < n THEN Len(s) ELSE n)

\* n copies of the character c
Rep(c, n) == [i \in 1..n |-> c]

\* a run of n characters c, written out when short and as c{n} otherwise
Run(c, n) ==
    IF n = 1 THEN c
    ELSE IF n = 2 THEN c \o c
    ELSE IF n = 3 THEN c \o c \o c
    ELSE c \o "{" \o ToString(n) \o "}"

RECURSIVE PackFrom(_, _, _)
\* the runs of s from index i on; starts are the first indexes of the later runs
PackFrom(s, i, starts) ==
    IF starts = {} THEN Run(s[i], Len(s) + 1 - i)
    ELSE LET j == CHOOSE a \in starts : \A b \in starts : a <= b
         IN  Run(s[i], j - i) \o PackFrom(s, j, starts \ {j})

\* the character sequence s as one string: <<"a", "b">> is "ab", and 1200 times
\* "a" is "a{1200}".  No text holds a brace, so Pack is one-to-one.
Pack(s) ==
    IF s = <<>> THEN ""
    ELSE PackFrom(s, 1, {i \in 2..Len(s) : s[i] # s[i - 1]})

-----------------------------------------------------------------------------
(* Class constants of SentimentAnalyzer.                                   *)

POSITIVE == <<"P", "O", "S", "I", "T", "I", "V", "E">>
NEGATIVE == <<"N", "E", "G", "A", "T", "I", "V", "E">>
NEUTRAL == <<"N", "E", "U", "T", "R", "A", "L">>
positive == "positive"
negative == "negative"
neutral == "neutral"

Sentiments == {positive, negative, neutral}

\* a variant: _LABEL_MAP.get(raw_label, raw_label)
LabelMapGet_RawDefault(raw_label) ==
    IF raw_label = POSITIVE THEN positive
    ELSE IF raw_label = NEGATIVE THEN negative
    ELSE IF raw_label = NEUTRAL THEN neutral
    ELSE Pack(raw_label)

\* _LABEL_MAP.get(raw_label, "neutral")
LabelMapGet(raw_label) ==
    IF raw_label = POSITIVE THEN positive
    ELSE IF raw_label = NEGATIVE THEN negative
    ELSE IF raw_label = NEUTRAL THEN neutral
    ELSE neutral

\* _IRONY_PHRASES; its last member is the empty string
_IRONY_PHRASES ==
    { <<"n", "u", " ", "k", "o", "n", "e", "c", "h", "n", "o">>,
      <<"e", "s", "h", "c", "h", "e", " ", "b", "y">>,
      <<"k", "a", "k", " ", "z", "h", "e">>,
      <<"v", "o", "t", " ", "i", "m", "e", "n", "n", "o">>,
      <<"p", "r", "o", "s", "t", "o", " ", "b", "l", "e", "s", "t", "y", "a", "s", "h", "c", "h", "e">>,
      <<"p", "r", "o", "s", "t", "o", " ", "p", "r", "e", "k", "r", "a", "s", "n", "o">>,
      <<"s", "a", "m", "o", " ", "s", "o", "b", "o", "y">>,
      <<"r", "a", "z", "u", "m", "e", "e", "t", "s", "y", "a">>,
      <<"e", "s", "t", "e", "s", "t", "v", "e", "n", "n", "o">>,
      <<"n", "u", " ", "t", "y", " ", "i", " ", "m", "o", "l", "o", "d", "e", "t", "s">>,
      <<"s", "p", "a", "s", "i", "b", "o", ",", " ", "k", "o", "n", "e", "c", "h", "n", "o">>,
      <<"n", "u", " ", "d", "a", ",", " ", "n", "u", " ", "d", "a">>,
      <<>> }

LongTextThreshold == 2000
UnitMaxLen == 1000
CacheCapacity == 1000

\* get_ml_model(): the default model name of core/config.py
DefaultModel == "cointegrated/rubert-tiny-sentiment-balanced"

\* Python's None
None == [none |-> TRUE]

-----------------------------------------------------------------------------
(* Confidences: exact rationals.                                           *)

Rat(n, d) == [n |-> n, d |-> d]

RatEq(a, b) == a.n * b.d = b.n * a.d
RatLe(a, b) == a.n * b.d <= b.n * a.d

\* a variant: c * 2
Half_Double(c) == Rat(2 * c.n, c.d)

\* c * 0.5
Half(c) == Rat(c.n, 2 * c.d)

\* max(0.1, c): Python returns its first argument unless a later one is greater
MaxTenth(c) == IF RatLe(c, Rat(1, 10)) THEN Rat(1, 10) ELSE c

-----------------------------------------------------------------------------
(* The classifier: a black box that, given a string, returns one top label *)
(* with a score in [0, 1], or raises.                                      *)

\* the lower-case label "negative" and a label that is not in _LABEL_MAP
RAW_negative == <<"n", "e", "g", "a", "t", "i", "v", "e">>
LABEL_2 == <<"L", "A", "B", "E", "L", "_", "2">>

\* labels the pipeline may return: recognised in either case, or unknown
RawLabels == {POSITIVE, RAW_negative, LABEL_2}

\* scores the pipeline may return
Scores == {Rat(5, 100), Rat(90, 100)}

Raised == [raised |-> TRUE]

Prediction(label, score) == [raised |-> FALSE, label |-> label, score |-> score]

Predictions == {Prediction(l, s) : l \in RawLabels, s \in Scores}

\* what one call self.classifier(x) can do
ClassifierOutcomes == Predictions \cup {Raised}

\* a model other than the default, named to SentimentAnalyzer(model_name); its
\* pipeline labels in mixed case and has a graded class "Very Positive"
CustomModel == "custom/graded-sentiment"

Very_Positive == <<"V", "e", "r", "y", " ", "P", "o", "s", "i", "t", "i", "v", "e">>
Negative == <<"N", "e", "g", "a", "t", "i", "v", "e">>
Neutral == <<"N", "e", "u", "t", "r", "a", "l">>

CustomLabels == {Very_Positive, Negative, Neutral}

CustomOutcomes == {Prediction(l, Rat(90, 100)) : l \in CustomLabels} \cup {Raised}

\* what one call self.classifier(x) can do once pipeline(model=model_name) is loaded
OutcomesOf(model) == IF model = CustomModel THEN CustomOutcomes ELSE ClassifierOutcomes

-----------------------------------------------------------------------------
(* The texts analysed.                                                     *)

EmptyText == <<>>
BlankText == <<" ", "\t", " ">>

\* "Ya ochen schastliv segodnya!": no idiom of the irony list
HappyText == <<"Y", "a", " ", "s", "c", "h", "a", "s", "t", "l", "i", "v", "!">>

\* "Nu konechno, eto prosto velikolepno!": holds the idiom "nu konechno"
IronicText == <<"N", "u", " ", "k", "o", "n", "e", "c", "h", "n", "o", ",", " ", "s", "u", "p", "e", "r", "!">>

\* longer than 2000 characters: a sentence of more than 1000 characters that
\* holds the idiom "nu konechno", then a remainder without terminator
LongText ==
    <<"N", "u", " ", "k", "o", "n", "e", "c", "h", "n", "o", " ">> \o Rep("a", 1200) \o <<".", " ">> \o Rep("b", 800)

Texts == {EmptyText, BlankText, HappyText, IronicText, LongText}

\* exactly 2000 characters, with a sentence end inside
Text2000 == Rep("a", 999) \o <<".">> \o Rep("b", 1000)

\* 2001 characters in three sentence units, the first of more than 1000 characters
Text2001 ==
    Rep("a", 1100) \o <<"!", " ">> \o Rep("b", 500) \o <<"?", " ">> \o Rep("c", 396) \o <<".">>

\* the texts at the two sides of the length threshold
PathTexts == {Text2000, Text2001}

\* "Plokho.": one more short text
SadText == <<"P", "l", "o", "k", "h", "o", ".">>

AllTexts == Texts \cup PathTexts \cup {SadText}

\* the texts as the state keeps them
Packed == [t \in AllTexts |-> Pack(t)]

PackedTexts == {Packed[t] : t \in AllTexts}

-----------------------------------------------------------------------------
(* The methods of SentimentAnalyzer, as functions of what they read.       *)

\* SentimentResult(...).as_dict()
SentimentResult(text, sentiment, confidence, irony_detected, model_used) ==
    [text |-> Pack(text), sentiment |-> sentiment, confidence |-> confidence,
     irony_detected |-> irony_detected, model_used |-> model_used]

\* a variant: only `not text`
IsBlank_EmptyOnly(text) == text = <<>>

\* not text or not text.strip()
IsBlank(text) == text = <<>> \/ Strip(text) = <<>>

\* _detect_irony
DetectIrony(text) ==
    LET text_lower == Lower(text)
    IN  \E phrase \in _IRONY_PHRASES : Contains(phrase, text_lower)

\* _get_cache_key: the MD5 digest of the text, taken to be free of collisions
GetCacheKey(text) == <<"md5", Pack(text)>>

\* the cache is a dict: a sequence of entries in insertion order, keys distinct
HasKey(cache, cache_key) == \E i \in 1..Len(cache) : cache[i].key = cache_key

\* _get_from_cache: self._cache.get(cache_key)
GetFromCache(cache, cache_key) ==
    IF HasKey(cache, cache_key)
    THEN cache[CHOOSE i \in 1..Len(cache) : cache[i].key = cache_key].value
    ELSE None

\* self._cache[cache_key] = result: a present key keeps its place
DictSet(cache, cache_key, result) ==
    IF HasKey(cache, cache_key)
    THEN [i \in 1..Len(cache) |->
            IF cache[i].key = cache_key THEN [key |-> cache_key, value |-> result]
            ELSE cache[i]]
    ELSE Append(cache, [key |-> cache_key, value |-> result])

\* a variant: the capacity test is len(self._cache) > 1000
SaveToCache_EvictLate(cache, cache_key, result) ==
    IF Len(cache) > CacheCapacity
    THEN Append(Tail(cache), [key |-> cache_key, value |-> result])
    ELSE Append(cache, [key |-> cache_key, value |-> result])

\* a variant: the assignment self._cache[cache_key] = result is missing
SaveToCache_NoStore(cache, cache_key, result) ==
    IF Len(cache) >= CacheCapacity THEN Tail(cache) ELSE cache

\* _save_to_cache
SaveToCache(cache, cache_key, result) ==
    IF Len(cache) >= CacheCapacity
    THEN DictSet(Tail(cache), cache_key, result)
    ELSE DictSet(cache, cache_key, result)

Terminators == {".", "!", "?"}

RECURSIVE SplitFrom_DropRemainder(_, _, _)
\* a variant: what follows the last terminator is not kept
SplitFrom_DropRemainder(text, start, ends) ==
    IF ends = {}
    THEN <<>>
    ELSE LET e == CHOOSE i \in ends : \A j \in ends : i <= j
         IN  <<Strip(SubSeq(text, start, e))>>
                 \o SplitFrom_DropRemainder(text, e + 1, ends \ {e})

RECURSIVE SplitFrom(_, _, _)
\* the loop of _split_sentences from index start on; ends are the indexes of the
\* terminators not yet passed
SplitFrom(text, start, ends) ==
    IF ends = {}
    THEN LET rest == Strip(SubSeq(text, start, Len(text)))
         IN  IF rest # <<>> THEN <<rest>> ELSE <<>>
    ELSE LET e == CHOOSE i \in ends : \A j \in ends : i <= j
         IN  <<Strip(SubSeq(text, start, e))>> \o SplitFrom(text, e + 1, ends \ {e})

\* _split_sentences
SplitSentences(text) ==
    SplitFrom(text, 1, {i \in 1..Len(text) : text[i] \in Terminators})

RatAdd(a, b) == Rat(a.n * b.d + b.n * a.d, a.d * b.d)

RECURSIVE SumScores(_)
\* sum(r["score"] for r in results)
SumScores(results) ==
    IF results = <<>> THEN Rat(0, 1)
    ELSE RatAdd(Head(results).score, SumScores(Tail(results)))

RECURSIVE LongLoop_AbortOnFailure(_, _, _)
\* a variant: the except branch leaves the loop (break instead of continue)
LongLoop_AbortOnFailure(sentences, i, outs) ==
    IF i > Len(sentences) THEN [calls |-> <<>>, results |-> <<>>]
    ELSE IF Len(Strip(sentences[i])) > 0
    THEN LET out == Head(outs)
             rest == IF out.raised THEN [calls |-> <<>>, results |-> <<>>]
                     ELSE LongLoop_AbortOnFailure(sentences, i + 1, Tail(outs))
         IN  [calls |-> <<Pack(Prefix(sentences[i], UnitMaxLen))>> \o rest.calls,
              results |-> IF out.raised THEN rest.results
                          ELSE <<[label |-> out.label, score |-> out.score]>>
                               \o rest.results]
    ELSE LongLoop_AbortOnFailure(sentences, i + 1, outs)

RECURSIVE LongLoop_CountFailures(_, _, _)
\* a variant: the except branch appends a neutral prediction of score 0
LongLoop_CountFailures(sentences, i, outs) ==
    IF i > Len(sentences) THEN [calls |-> <<>>, results |-> <<>>]
    ELSE IF Len(Strip(sentences[i])) > 0
    THEN LET rest == LongLoop_CountFailures(sentences, i + 1, Tail(outs))
             out == Head(outs)
         IN  [calls |-> <<Pack(Prefix(sentences[i], UnitMaxLen))>> \o rest.calls,
              results |-> IF out.raised
                          THEN <<[label |-> NEUTRAL, score |-> Rat(0, 1)]>>
                               \o rest.results
                          ELSE <<[label |-> out.label, score |-> out.score]>>
                               \o rest.results]
    ELSE LongLoop_CountFailures(sentences, i + 1, outs)

RECURSIVE LongLoop_NoTruncation(_, _, _)
\* a variant: the classifier is handed the whole sentence, not sentence[:1000]
LongLoop_NoTruncation(sentences, i, outs) ==
    IF i > Len(sentences) THEN [calls |-> <<>>, results |-> <<>>]
    ELSE IF Len(Strip(sentences[i])) > 0
    THEN LET rest == LongLoop_NoTruncation(sentences, i + 1, Tail(outs))
             out == Head(outs)
         IN  [calls |-> <<Pack(sentences[i])>> \o rest.calls,
              results |-> IF out.raised THEN rest.results
                          ELSE <<[label |-> out.label, score |-> out.score]>>
                               \o rest.results]
    ELSE LongLoop_NoTruncation(sentences, i + 1, outs)

RECURSIVE LongLoop(_, _, _)
\* the for loop of _analyze_long_text over sentences[i..]; outs are the outcomes
\* of the classifier calls still to come.  calls are the strings handed to the
\* classifier, results the predictions appended.
LongLoop(sentences, i, outs) ==
    IF i > Len(sentences) THEN [calls |-> <<>>, results |-> <<>>]
    ELSE IF Len(Strip(sentences[i])) > 0
    THEN LET rest == LongLoop(sentences, i + 1, Tail(outs))
             out == Head(outs)
         IN  [calls |-> <<Pack(Prefix(sentences[i], UnitMaxLen))>> \o rest.calls,
              results |-> IF out.raised THEN rest.results
                          ELSE <<[label |-> out.label, score |-> out.score]>>
                               \o rest.results]
    ELSE LongLoop(sentences, i + 1, outs)

\* _analyze_long_text
AnalyzeLongText(text, irony_detected, model_name, outs) ==
    LET loop == LongLoop(SplitSentences(text), 1, outs)
        results == loop.results
        n == Len(results)
        total_score == SumScores(results)
        avg_confidence == Rat(total_score.n, total_score.d * n)
        positive_count ==
            Cardinality({i \in 1..n : Contains(POSITIVE, Upper(results[i].label))})
        negative_count ==
            Cardinality({i \in 1..n : Contains(NEGATIVE, Upper(results[i].label))})
        neutral_count == n - positive_count - negative_count
        sentiment ==
            IF positive_count > negative_count /\ positive_count > neutral_count
            THEN positive
            ELSE IF negative_count > positive_count /\ negative_count > neutral_count
            THEN negative
            ELSE neutral
    IN  [raised |-> FALSE,
         calls |-> loop.calls,
         value |-> IF results = <<>>
                   THEN SentimentResult(text, neutral, Rat(1, 2), irony_detected,
                                        model_name)
                   ELSE SentimentResult(text, sentiment, avg_confidence,
                                        irony_detected, model_name)]

\* a variant: a raising classifier is answered with the neutral fallback
AnalyzeWithModel_Swallow(text, irony_detected, model_name, outs) ==
    IF Len(text) > LongTextThreshold
    THEN AnalyzeLongText(text, irony_detected, model_name, outs)
    ELSE LET prediction == Head(outs)
             sentiment == IF prediction.raised THEN neutral
                          ELSE LabelMapGet(Upper(prediction.label))
             confidence == IF prediction.raised THEN Rat(1, 2) ELSE prediction.score
         IN  [raised |-> FALSE,
              calls |-> <<Pack(text)>>,
              value |-> IF irony_detected /\ sentiment = positive
                        THEN SentimentResult(text, negative,
                                             MaxTenth(Half(confidence)),
                                             irony_detected, model_name)
                        ELSE SentimentResult(text, sentiment, confidence,
                                             irony_detected, model_name)]

\* a variant: the correction is applied to every sentiment
AnalyzeWithModel_CorrectAll(text, irony_detected, model_name, outs) ==
    IF Len(text) > LongTextThreshold
    THEN AnalyzeLongText(text, irony_detected, model_name, outs)
    ELSE LET prediction == Head(outs)
             sentiment == LabelMapGet(Upper(prediction.label))
             confidence == prediction.score
         IN  IF prediction.raised
             THEN [raised |-> TRUE, calls |-> <<Pack(text)>>, value |-> None]
             ELSE [raised |-> FALSE,
                   calls |-> <<Pack(text)>>,
                   value |-> IF irony_detected
                             THEN SentimentResult(text, negative,
                                                  MaxTenth(Half(confidence)),
                                                  irony_detected, model_name)
                             ELSE SentimentResult(text, sentiment, confidence,
                                                  irony_detected, model_name)]

\* _analyze_with_model once _init_model has returned; outs are the outcomes of
\* the classifier calls it makes, in order
AnalyzeWithModel(text, irony_detected, model_name, outs) ==
    IF Len(text) > LongTextThreshold
    THEN AnalyzeLongText(text, irony_detected, model_name, outs)
    ELSE LET prediction == Head(outs)
             raw_label == Upper(prediction.label)
             sentiment == LabelMapGet(raw_label)
             confidence == prediction.score
         IN  IF prediction.raised
             THEN [raised |-> TRUE, calls |-> <<Pack(text)>>, value |-> None]
             ELSE [raised |-> FALSE,
                   calls |-> <<Pack(text)>>,
                   value |-> IF irony_detected /\ sentiment = positive
                             THEN SentimentResult(text, negative,
                                                  MaxTenth(Half(confidence)),
                                                  irony_detected, model_name)
                             ELSE SentimentResult(text, sentiment, confidence,
                                                  irony_detected, model_name)]

\* how often _analyze_with_model reaches self.classifier(...) for this text
ClassifierCalls(text) ==
    IF Len(text) > LongTextThreshold
    THEN LET sentences == SplitSentences(text)
         IN  Cardinality({i \in 1..Len(sentences) : Len(Strip(sentences[i])) > 0})
    ELSE 1

-----------------------------------------------------------------------------
(* The analyzer and the record of its latest analyze call.                 *)

\* number of analyze calls explored
MaxCalls == 2

VARIABLES
    model_name,   \* self.model_name
    classifier,   \* self.classifier: None until the pipeline is loaded
    cache,        \* self._cache, in insertion order
    last,         \* the latest analyze call: its argument, steps and outcome
    returned,     \* per text, the payload its latest successful call returned
    hits,         \* the texts that have been answered from the cache
    ncalls        \* analyze calls made so far

\* the callers of one analyzer that run at the same time
Threads == {"t1", "t2"}

VARIABLES
    pc,           \* per thread, the line of analyze it is about to execute
    frame,        \* per thread, the locals of its analyze call: text, result
    _cache_lock,  \* self._cache_lock: the threads inside a with block on it
    loads,        \* pipeline(...) constructions completed so far
    used,         \* the values of self.classifier that inference has been run on
    computed,     \* the (text, result) pairs _save_to_cache has stored
    evicted       \* keys deleted at line 321 and not stored again since

threadVars == <<pc, frame, _cache_lock, loads, used, computed, evicted>>

VARIABLES
    _analyzer,    \* the module global _analyzer: None or the current instance
    instances,    \* SentimentAnalyzer objects constructed so far
    answer,       \* the latest get_analyzer or set_analyzer call and what it returned
    installed     \* the latest set_analyzer call: its argument and its instance

singletonVars == <<_analyzer, instances, answer, installed>>

VARIABLES
    request_counts,  \* main.request_counts: requests counted per client
    last_reset,      \* main.last_reset
    now,             \* time.time(), in seconds since the module was imported
    user_stats,      \* main.user_stats: per user id its counters, None when absent
    response,        \* the latest HTTP request and the response to it
    passed,          \* per client, requests handed to predict since the last reset
    nrequests        \* POST /predict requests received with a valid body

apiVars ==
    <<request_counts, last_reset, now, user_stats, response, passed, nrequests>>

VARIABLES
    result_cache,    \* bot.services.result_cache, in insertion order
    user_histories,  \* bot.services.user_histories: a list per user id it has
    added,           \* per user id, every record _add_to_history has appended
    called,          \* the latest analyze_text or _add_to_history call and its outcome
    message,         \* the latest message handle_text has handled and the reply
    nmessages,       \* calls of the bot's functions made so far
    split            \* the latest _split_sentences call: its text and its units

botVars ==
    <<result_cache, user_histories, added, called, message, nmessages, split>>

vars ==
    <<model_name, classifier, cache, last, returned, hits, ncalls, threadVars,
      singletonVars, apiVars, botVars>>

Pipeline == [pipeline |-> TRUE]

\* the locals of a thread that is not inside analyze
NoFrame == [text |-> "", result |-> None]

\* the k-th SentimentAnalyzer object constructed
Instance(k) == [instance |-> k]

NoAnswer ==
    [call |-> "none", before |-> None, cache_before |-> <<>>, instance |-> None,
     model_name |-> "", cache |-> <<>>]

\* the analyzer of this specification is the installed one; nothing has asked
\* for it yet
Installed ==
    /\ _analyzer = Instance(1)
    /\ instances = 1
    /\ answer = NoAnswer
    /\ installed = None

\* the clients of the HTTP service and the user ids they send
Clients == {"testclient"}
UserIds == {123}

\* main.py at import: no request counted, no statistics; no request made yet
ApiIdle ==
    /\ request_counts = [c \in Clients |-> 0]
    /\ last_reset = 0
    /\ now = 0
    /\ user_stats = [u \in UserIds |-> None]
    /\ response = None
    /\ passed = [c \in Clients |-> 0]
    /\ nrequests = 0

\* the users of the bot
BotUsers == {123, 456}

\* bot/services.py at import: nothing cached, no history; nothing called yet
BotIdle ==
    /\ result_cache = <<>>
    /\ user_histories = [u \in {} |-> <<>>]
    /\ added = [u \in BotUsers |-> <<>>]
    /\ called = None
    /\ message = None
    /\ nmessages = 0

\* no thread is inside analyze
ThreadsIdle ==
    /\ pc = [t \in Threads |-> "idle"]
    /\ frame = [t \in Threads |-> NoFrame]
    /\ _cache_lock = {}
    /\ used = {}
    /\ computed = {}
    /\ evicted = {}

NoCall ==
    [text |-> "", outcome |-> "none", result |-> None, from_cache |-> FALSE,
     irony_run |-> FALSE, cache_reads |-> 0, model_loads |-> 0,
     init_failed |-> FALSE, calls |-> <<>>, outs |-> <<>>, cache_before |-> <<>>,
     earlier |-> None]

\* SentimentAnalyzer(): __init__ without model_name
Init ==
    /\ model_name = DefaultModel
    /\ classifier = None
    /\ cache = <<>>
    /\ last = NoCall
    /\ returned = [t \in PackedTexts |-> None]
    /\ hits = {}
    /\ ncalls = 0
    /\ ThreadsIdle
    /\ loads = 0
    /\ Installed
    /\ ApiIdle
    /\ BotIdle
    /\ split = None

\* a classifier outcome as the call record keeps it: the label as a string
Shown(out) ==
    IF out.raised THEN out
    ELSE [raised |-> FALSE, label |-> Pack(out.label), score |-> out.score]

\* analyze(text) with empty or blank text: ValueError before anything else
AnalyzeInvalid(text) ==
    /\ IsBlank(text)
    /\ last' = [NoCall EXCEPT !.text = Packed[text], !.outcome = "ValueError",
                              !.cache_before = cache, !.earlier = returned[Packed[text]]]
    /\ ncalls' = ncalls + 1
    /\ UNCHANGED <<model_name, classifier, cache, returned, hits>>

\* analyze(text) answered from the cache
AnalyzeCached(text) ==
    /\ ~IsBlank(text)
    /\ LET cached_result == GetFromCache(cache, GetCacheKey(text))
       IN  /\ cached_result # None
           /\ last' = [NoCall EXCEPT !.text = Packed[text], !.outcome = "return",
                                     !.result = cached_result, !.from_cache = TRUE,
                                     !.cache_reads = 1, !.cache_before = cache,
                                     !.earlier = returned[Packed[text]]]
           /\ returned' = [returned EXCEPT ![Packed[text]] = cached_result]
           /\ hits' = hits \cup {Packed[text]}
    /\ ncalls' = ncalls + 1
    /\ UNCHANGED <<model_name, classifier, cache>>

\* analyze(text), cache miss, and pipeline(...) raises in _init_model
AnalyzeLoadFailure(text) ==
    /\ ~IsBlank(text)
    /\ GetFromCache(cache, GetCacheKey(text)) = None
    /\ classifier = None
    /\ last' = [NoCall EXCEPT !.text = Packed[text], !.outcome = "RuntimeError",
                              !.irony_run = TRUE, !.cache_reads = 1,
                              !.model_loads = 1, !.init_failed = TRUE,
                              !.cache_before = cache,
                              !.earlier = returned[Packed[text]]]
    /\ ncalls' = ncalls + 1
    /\ UNCHANGED <<model_name, classifier, cache, returned, hits>>

\* analyze(text), cache miss, with the model loaded or loading now
AnalyzeMiss(text) ==
    /\ ~IsBlank(text)
    /\ LET cache_key == GetCacheKey(text)
           irony_detected == DetectIrony(text)
       IN  /\ GetFromCache(cache, cache_key) = None
           /\ \E outs \in [1..ClassifierCalls(text) -> OutcomesOf(model_name)] :
                LET run == AnalyzeWithModel(text, irony_detected, model_name, outs)
                    call == [NoCall EXCEPT !.text = Packed[text], !.irony_run = TRUE,
                                           !.cache_reads = 1,
                                           !.model_loads =
                                               IF classifier = None THEN 1 ELSE 0,
                                           !.calls = run.calls,
                                           !.outs = [i \in 1..Len(run.calls) |-> Shown(outs[i])],
                                           !.cache_before = cache,
                                           !.earlier = returned[Packed[text]]]
                IN  IF run.raised
                    THEN /\ last' = [call EXCEPT !.outcome = "RuntimeError"]
                         /\ UNCHANGED <<cache, returned>>
                    ELSE /\ last' = [call EXCEPT !.outcome = "return",
                                                 !.result = run.value]
                         /\ cache' = SaveToCache(cache, cache_key, run.value)
                         /\ returned' = [returned EXCEPT ![Packed[text]] = run.value]
    /\ classifier' = Pipeline
    /\ ncalls' = ncalls + 1
    /\ UNCHANGED <<model_name, hits>>

\* analyze(text) on a text of at most 2000 characters that is not cached
AnalyzeShort(text) == Len(text) <= LongTextThreshold /\ AnalyzeMiss(text)

\* analyze(text) on a text of more than 2000 characters that is not cached
AnalyzeLong(text) == Len(text) > LongTextThreshold /\ AnalyzeMiss(text)

\* one of the MaxCalls calls made one after another by a single caller
Sequential(call) ==
    ncalls < MaxCalls /\ call /\ UNCHANGED <<threadVars, singletonVars, apiVars, botVars>>

\* the calls open to an analyzer whose model is loaded: _init_model returns at once
NextLoaded ==
    \E text \in Texts :
        \/ Sequential(AnalyzeInvalid(text))
        \/ Sequential(AnalyzeCached(text))
        \/ Sequential(AnalyzeShort(text))
        \/ Sequential(AnalyzeLong(text))

Next ==
    \/ NextLoaded
    \/ \E text \in Texts : Sequential(AnalyzeLoadFailure(text))

Spec == Init /\ [][Next]_vars

-----------------------------------------------------------------------------
(* A long-running analyzer: the cache already holds HappyText, analysed    *)
(* first, and then distinct short texts analysed one after another.        *)

Digits == <<"0", "1", "2", "3", "4", "5", "6", "7", "8", "9">>

\* the i-th of the distinct short texts "f000", "f001", ...
Filler(i) ==
    <<"f", Digits[((i \div 100) % 10) + 1], Digits[((i \div 10) % 10) + 1],
      Digits[(i % 10) + 1]>>

\* the payload analyze(text) returns on a miss when the classifier answers with
\* the single prediction
ShortPayload(text, prediction) ==
    AnalyzeWithModel(text, DetectIrony(text), DefaultModel, <<prediction>>).value

WarmEntry(text) ==
    [key |-> GetCacheKey(text),
     value |-> ShortPayload(text, Prediction(RAW_negative, Rat(90, 100)))]

\* the cache after analyze(HappyText), analyze(Filler(1)), ..., analyze(Filler(n - 1))
WarmCache(n) == [i \in 1..n |-> IF i = 1 THEN WarmEntry(HappyText) ELSE WarmEntry(Filler(i - 1))]

InitWarm ==
    /\ model_name = DefaultModel
    /\ classifier = Pipeline
    /\ cache \in {WarmCache(CacheCapacity - 1), WarmCache(CacheCapacity)}
    /\ last = NoCall
    /\ returned = [t \in PackedTexts |->
                       IF t = Packed[HappyText] THEN WarmEntry(HappyText).value ELSE None]
    /\ hits = {}
    /\ ncalls = 0
    /\ ThreadsIdle
    /\ loads = 1
    /\ Installed
    /\ ApiIdle
    /\ BotIdle
    /\ split = None

SpecWarm == InitWarm /\ [][NextLoaded]_vars

-----------------------------------------------------------------------------
(* An analyzer constructed as SentimentAnalyzer(CustomModel) and called    *)
(* with the texts at the two sides of the length threshold.                *)

\* SentimentAnalyzer(model_name): __init__ with a model name
InitCustom ==
    /\ model_name = CustomModel
    /\ classifier = None
    /\ cache = <<>>
    /\ last = NoCall
    /\ returned = [t \in PackedTexts |-> None]
    /\ hits = {}
    /\ ncalls = 0
    /\ ThreadsIdle
    /\ loads = 0
    /\ Installed
    /\ ApiIdle
    /\ BotIdle
    /\ split = None

NextCustom ==
    \E text \in PathTexts :
        \/ Sequential(AnalyzeCached(text))
        \/ Sequential(AnalyzeLoadFailure(text))
        \/ Sequential(AnalyzeShort(text))
        \/ Sequential(AnalyzeLong(text))

SpecCustom == InitCustom /\ [][NextCustom]_vars

-----------------------------------------------------------------------------
(* One analyzer called from two threads: analyze line by line.  A step is  *)
(* the code between two points at which the other thread can run; the body *)
(* of a with self._cache_lock block runs while the thread holds the lock.  *)

\* the texts the threads analyse, and what the classifier answers
ThreadTexts == {BlankText, IronicText, SadText}

ThreadOutcomes ==
    {Prediction(POSITIVE, Rat(90, 100)), Prediction(RAW_negative, Rat(90, 100)), Raised}

\* the text of a frame as a character sequence
FrameText(t) == CHOOSE text \in AllTexts : Packed[text] = frame[t].text

\* the k-th pipeline object constructed for this analyzer
Handle(k) == [pipeline |-> TRUE, id |-> k]

\* a variant: the lock does not keep a second thread out
Acquirable_Always(lock) == TRUE

\* threading.Lock: entering a with block waits until the lock is free
Acquirable(lock) == lock = {}

\* a variant: leaving the with block keeps the lock
Released_Kept(lock, t) == lock

\* leaving a with block releases the lock
Released(lock, t) == lock \ {t}

\* the call of thread t ends: return or raise
Leave(t) ==
    /\ pc' = [pc EXCEPT ![t] = "idle"]
    /\ frame' = [frame EXCEPT ![t] = NoFrame]

Goto(t, line) == pc' = [pc EXCEPT ![t] = line]

\* analyze(text), line 133: ValueError for a blank text, else on to the lookup
Enter(t, text) ==
    /\ pc[t] = "idle"
    /\ ncalls < MaxCalls
    /\ ncalls' = ncalls + 1
    /\ IF IsBlank(text)
       THEN UNCHANGED <<pc, frame>>
       ELSE /\ Goto(t, "get_from_cache")
            /\ frame' = [frame EXCEPT ![t] = [text |-> Packed[text], result |-> None]]
    /\ UNCHANGED <<model_name, classifier, cache, last, returned, hits,
                   _cache_lock, loads, used, computed, evicted,
                   singletonVars, apiVars, botVars>>

\* _get_from_cache, line 311: with self._cache_lock
GetLock(t) ==
    /\ pc[t] = "get_from_cache"
    /\ Acquirable(_cache_lock)
    /\ _cache_lock' = _cache_lock \cup {t}
    /\ Goto(t, "cache_get")
    /\ UNCHANGED <<model_name, classifier, cache, last, returned, hits, ncalls,
                   frame, loads, used, computed, evicted,
                   singletonVars, apiVars, botVars>>

\* _get_from_cache, line 312, and analyze, lines 139-144: a hit returns the
\* cached payload, a miss goes on to _detect_irony and _analyze_with_model
CacheGet(t) ==
    /\ pc[t] = "cache_get"
    /\ _cache_lock' = Released(_cache_lock, t)
    /\ IF GetFromCache(cache, GetCacheKey(FrameText(t))) # None
       THEN Leave(t)
       ELSE Goto(t, "init_model") /\ UNCHANGED frame
    /\ UNCHANGED <<model_name, classifier, cache, last, returned, hits, ncalls,
                   loads, used, computed, evicted,
                   singletonVars, apiVars, botVars>>

\* _init_model, line 93: return at once when self.classifier is set
InitModel(t) ==
    /\ pc[t] = "init_model"
    /\ IF classifier # None THEN Goto(t, "classify") ELSE Goto(t, "pipeline")
    /\ UNCHANGED <<model_name, classifier, cache, last, returned, hits, ncalls,
                   frame, _cache_lock, loads, used, computed, evicted,
                   singletonVars, apiVars, botVars>>

\* _init_model, lines 99-105: pipeline(...) returns and is assigned
PipelineLoaded(t) ==
    /\ pc[t] = "pipeline"
    /\ loads' = loads + 1
    /\ classifier' = Handle(loads + 1)
    /\ Goto(t, "classify")
    /\ UNCHANGED <<model_name, cache, last, returned, hits, ncalls, frame,
                   _cache_lock, used, computed, evicted,
                   singletonVars, apiVars, botVars>>

\* _init_model, lines 107-109: pipeline(...) raises, analyze ends in RuntimeError
PipelineFailed(t) ==
    /\ pc[t] = "pipeline"
    /\ Leave(t)
    /\ UNCHANGED <<model_name, classifier, cache, last, returned, hits, ncalls,
                   _cache_lock, loads, used, computed, evicted,
                   singletonVars, apiVars, botVars>>

\* _analyze_with_model, lines 181-199, for a text of at most 2000 characters:
\* self.classifier is read when the call is made
Classify(t) ==
    /\ pc[t] = "classify"
    /\ used' = used \cup {classifier}
    /\ \E out \in ThreadOutcomes :
          LET text == FrameText(t)
              run == AnalyzeWithModel(text, DetectIrony(text), model_name, <<out>>)
          IN  IF run.raised
              THEN Leave(t)
              ELSE /\ frame' = [frame EXCEPT ![t].result = run.value]
                   /\ Goto(t, "save_to_cache")
    /\ UNCHANGED <<model_name, classifier, cache, last, returned, hits, ncalls,
                   _cache_lock, loads, computed, evicted,
                   singletonVars, apiVars, botVars>>

\* _save_to_cache, line 316: with self._cache_lock
SaveLock(t) ==
    /\ pc[t] = "save_to_cache"
    /\ Acquirable(_cache_lock)
    /\ _cache_lock' = _cache_lock \cup {t}
    /\ Goto(t, "cache_evict")
    /\ UNCHANGED <<model_name, classifier, cache, last, returned, hits, ncalls,
                   frame, loads, used, computed, evicted,
                   singletonVars, apiVars, botVars>>

\* _save_to_cache, lines 318-321: make room
CacheEvict(t) ==
    /\ pc[t] = "cache_evict"
    /\ IF Len(cache) >= CacheCapacity
       THEN /\ cache' = Tail(cache)
            /\ evicted' = evicted \cup {Head(cache).key}
       ELSE UNCHANGED <<cache, evicted>>
    /\ Goto(t, "cache_store")
    /\ UNCHANGED <<model_name, classifier, last, returned, hits, ncalls, frame,
                   _cache_lock, loads, used, computed,
                   singletonVars, apiVars, botVars>>

\* _save_to_cache, line 322, and analyze, line 154: store and return
CacheStore(t) ==
    /\ pc[t] = "cache_store"
    /\ LET cache_key == GetCacheKey(FrameText(t))
       IN  /\ cache' = DictSet(cache, cache_key, frame[t].result)
           /\ evicted' = evicted \ {cache_key}
    /\ computed' = computed \cup {<<frame[t].text, frame[t].result>>}
    /\ _cache_lock' = Released(_cache_lock, t)
    /\ Leave(t)
    /\ UNCHANGED <<model_name, classifier, last, returned, hits, ncalls, loads, used,
                   singletonVars, apiVars, botVars>>

NextThreads ==
    \E t \in Threads :
        \/ \E text \in ThreadTexts : Enter(t, text)
        \/ GetLock(t)
        \/ CacheGet(t)
        \/ InitModel(t)
        \/ PipelineLoaded(t)
        \/ PipelineFailed(t)
        \/ Classify(t)
        \/ SaveLock(t)
        \/ CacheEvict(t)
        \/ CacheStore(t)

\* a new analyzer, or one that has served CacheCapacity - 1 distinct texts
InitThreads ==
    /\ model_name = DefaultModel
    /\ \/ classifier = None /\ cache = <<>> /\ loads = 0
       \/ classifier = Handle(1) /\ cache = WarmCache(CacheCapacity - 1) /\ loads = 1
    /\ last = NoCall
    /\ returned = [t \in PackedTexts |-> None]
    /\ hits = {}
    /\ ncalls = 0
    /\ ThreadsIdle
    /\ Installed
    /\ ApiIdle
    /\ BotIdle
    /\ split = None

SpecThreads == InitThreads /\ [][NextThreads]_vars

-----------------------------------------------------------------------------
(* The module-level singleton: get_analyzer and set_analyzer, and analyze  *)
(* calls on the instance that is current.                                  *)

\* number of SentimentAnalyzer objects explored
MaxInstances == 3

\* the arguments given to set_analyzer
ModelNames == {"", CustomModel, DefaultModel}

\* set_analyzer's argument as __init__ receives it; get_analyzer passes none
Named(m) == [name |-> m]

\* __init__, lines 79-82: a model name that is None or empty selects the default
ModelNameFor(arg) ==
    IF arg # None /\ arg.name # "" THEN arg.name ELSE DefaultModel

\* a variant: get_analyzer constructs an analyzer on every call
MustConstruct_Always(analyzer) == TRUE

\* get_analyzer, line 338
MustConstruct(analyzer) == analyzer = None

\* _analyzer = SentimentAnalyzer(arg): a new object with its own empty cache and
\* no classifier; no analyze call has been made on it
Construct(arg) ==
    /\ instances < MaxInstances
    /\ instances' = instances + 1
    /\ _analyzer' = Instance(instances + 1)
    /\ model_name' = ModelNameFor(arg)
    /\ classifier' = None
    /\ cache' = <<>>
    /\ last' = NoCall
    /\ returned' = [t \in PackedTexts |-> None]
    /\ hits' = {}

\* what a call returns: the instance that is current when it ends
Answer(call) ==
    [call |-> call, before |-> _analyzer, cache_before |-> cache,
     instance |-> _analyzer', model_name |-> model_name', cache |-> cache']

\* get_analyzer()
GetAnalyzer ==
    /\ IF MustConstruct(_analyzer)
       THEN Construct(None)
       ELSE UNCHANGED <<_analyzer, instances, model_name, classifier, cache, last,
                        returned, hits>>
    /\ answer' = Answer("get_analyzer")
    /\ UNCHANGED <<installed, ncalls, threadVars, apiVars, botVars>>

\* set_analyzer(model_name)
SetAnalyzer(m) ==
    /\ Construct(Named(m))
    /\ answer' = Answer("set_analyzer")
    /\ installed' = [name |-> m, instance |-> _analyzer']
    /\ UNCHANGED <<ncalls, threadVars, apiVars, botVars>>

\* the texts analysed on the current instance
SingletonTexts == {BlankText, HappyText}

NextSingleton ==
    \/ GetAnalyzer
    \/ \E m \in ModelNames : SetAnalyzer(m)
    \/ \E text \in SingletonTexts :
           \/ _analyzer # None /\ Sequential(AnalyzeInvalid(text))
           \/ _analyzer # None /\ Sequential(AnalyzeCached(text))
           \/ _analyzer # None /\ Sequential(AnalyzeLoadFailure(text))
           \/ _analyzer # None /\ Sequential(AnalyzeShort(text))

\* ml_service at import: _analyzer = None; the fields of the analyzer stand for
\* no object yet
InitSingleton ==
    /\ _analyzer = None
    /\ instances = 0
    /\ answer = NoAnswer
    /\ installed = None
    /\ model_name = ""
    /\ classifier = None
    /\ cache = <<>>
    /\ last = NoCall
    /\ returned = [t \in PackedTexts |-> None]
    /\ hits = {}
    /\ ncalls = 0
    /\ ThreadsIdle
    /\ loads = 0
    /\ ApiIdle
    /\ BotIdle
    /\ split = None

SpecSingleton == InitSingleton /\ [][NextSingleton]_vars

-----------------------------------------------------------------------------
(* The HTTP service of main.py: its routes, the rate_limit decorator on    *)
(* predict, request validation, and the statistics kept per user.          *)

\* @rate_limit(max_requests=30, window=60)
max_requests == 30
window == 60

\* SentimentRequest.text: Field(..., min_length=1, max_length=5000)
min_length == 1
max_length == 5000

\* number of POST /predict requests with a valid body explored: by the mixed
\* traffic, and by the burst of one client
MaxRequests == 4
MaxBurst == 31

\* latest time of a request explored, in seconds
MaxSeconds == 61

\* the texts posted to /predict
ApiTexts == {EmptyText, BlankText, HappyText}

\* the user_id field of a parsed SentimentRequest: None or an integer
UserId(n) == [int |-> n]
RequestUserIds == {None} \cup {UserId(u) : u \in UserIds}

\* the routes registered by the decorators of main.py; a path is its segments
Routes ==
    { [method |-> "GET", path |-> <<>>, endpoint |-> "root"],
      [method |-> "POST", path |-> <<"predict">>, endpoint |-> "predict"],
      [method |-> "GET", path |-> <<"health">>, endpoint |-> "health"],
      [method |-> "GET", path |-> <<"stats", "{user_id}">>,
       endpoint |-> "get_user_stats"] }

\* "123", the path segment of user 123, and the paths requested with GET;
\* /stats is the path fetch_stats of bot/services.py requests
Segment123 == "123"
GetPaths == {<<>>, <<"health">>, <<"stats">>, <<"stats", Segment123>>}

\* the int a path segment converts to (user_id: int)
SegmentInt(segment) == IF segment = Segment123 THEN 123 ELSE 0

\* a route matches a path of as many segments, each equal to the route's or
\* standing for a path parameter
Matches(route, method, path) ==
    /\ route.method = method
    /\ Len(route.path) = Len(path)
    /\ \A i \in 1..Len(path) :
           route.path[i] = path[i] \/ (route.path[i] = "{user_id}" /\ path[i] # "")

\* the endpoint a request is routed to; "404" when no route matches
Endpoint(method, path) ==
    IF \E route \in Routes : Matches(route, method, path)
    THEN (CHOOSE route \in Routes : Matches(route, method, path)).endpoint
    ELSE "404"

Request(method, path) == [method |-> method, path |-> path]

\* a response that carries no analysis
Response(request, status_code, body) ==
    [request |-> request, text |-> "", user_id |-> None, status_code |-> status_code,
     body |-> body, reached_analyzer |-> FALSE]

\* the value user_stats gets for a user it has no entry for
NewUserStat ==
    [total |-> 0, positive |-> 0, negative |-> 0, neutral |-> 0, start_time |-> now]

\* user_stats[user_id]: the defaultdict's entry
UserStat(user_id) ==
    IF user_stats[user_id] = None THEN NewUserStat ELSE user_stats[user_id]

\* a variant: only total is counted
Counted_TotalOnly(stat, sentiment) == [stat EXCEPT !.total = @ + 1]

\* predict, lines 238-245: total and the counter of the sentiment
Counted(stat, sentiment) ==
    [stat EXCEPT !.total = @ + 1,
                 !.positive = IF sentiment = positive THEN @ + 1 ELSE @,
                 !.negative = IF sentiment = negative THEN @ + 1 ELSE @,
                 !.neutral = IF sentiment = neutral THEN @ + 1 ELSE @]

\* the positional arguments FastAPI may hand to the decorated predict: its
\* signature declares the parameter request: SentimentRequest and nothing else
WrapperArgs == {<<>>, <<[class |-> "SentimentRequest"]>>}

\* rate_limit, line 114: the first positional argument that is a fastapi Request
FindRequest(args) ==
    IF \E i \in 1..Len(args) : args[i].class = "Request"
    THEN args[CHOOSE i \in 1..Len(args) : args[i].class = "Request"]
    ELSE None

\* POST /predict with a body that SentimentRequest rejects: 422, and neither
\* the rate limiter nor predict runs
PredictUnprocessable(client, text) ==
    /\ Len(text) < min_length \/ Len(text) > max_length
    /\ response' = [Response(Request("POST", <<"predict">>), 422, None)
                        EXCEPT !.text = Packed[text]]
    /\ UNCHANGED <<model_name, classifier, cache, last, returned, hits, ncalls,
                   threadVars, singletonVars, botVars, request_counts, last_reset, now,
                   user_stats, passed, nrequests>>

\* POST /predict with a valid body: the wrapper of rate_limit, then predict
Predict(client, text, user_id) ==
    /\ Len(text) >= min_length /\ Len(text) <= max_length
    /\ nrequests' = nrequests + 1
    /\ \E args \in WrapperArgs :
          LET expired == now - last_reset > window
              counts == IF expired THEN [c \in Clients |-> 0] ELSE request_counts
              seen == IF expired THEN [c \in Clients |-> 0] ELSE passed
              request == FindRequest(args)
              post == Request("POST", <<"predict">>)
          IN  /\ last_reset' = IF expired THEN now ELSE last_reset
              /\ IF request # None /\ counts[client] >= max_requests
                 THEN /\ request_counts' = counts
                      /\ passed' = seen
                      /\ response' = [Response(post, 429, None)
                                          EXCEPT !.text = Packed[text],
                                                 !.user_id = user_id]
                      /\ UNCHANGED <<model_name, classifier, cache, last, returned,
                                     hits, ncalls, user_stats>>
                 ELSE /\ request_counts' =
                             IF request # None
                             THEN [counts EXCEPT ![client] = @ + 1]
                             ELSE counts
                      /\ passed' = [seen EXCEPT ![client] = @ + 1]
                      /\ \/ AnalyzeInvalid(text)
                         \/ AnalyzeCached(text)
                         \/ AnalyzeLoadFailure(text)
                         \/ AnalyzeMiss(text)
                      /\ IF last'.outcome = "return"
                         THEN /\ user_stats' =
                                     IF user_id # None
                                     THEN [user_stats EXCEPT ![user_id.int] =
                                              Counted(UserStat(user_id.int),
                                                      last'.result.sentiment)]
                                     ELSE user_stats
                              /\ response' =
                                     [request |-> post, text |-> Packed[text],
                                      user_id |-> user_id, status_code |-> 200,
                                      body |-> [text |-> last'.result.text,
                                                sentiment |-> last'.result.sentiment,
                                                confidence |-> last'.result.confidence,
                                                timestamp |-> now],
                                      reached_analyzer |-> TRUE]
                         ELSE /\ user_stats' = user_stats
                              /\ response' =
                                     [Response(post, 500, None)
                                         EXCEPT !.text = Packed[text],
                                                !.user_id = user_id,
                                                !.reached_analyzer = TRUE]
    /\ UNCHANGED <<model_name, threadVars, singletonVars, botVars, now>>

\* GET /: root
Root(path) ==
    /\ Endpoint("GET", path) = "root"
    /\ response' = Response(Request("GET", path), 200,
                            [service |-> "Sentiment Analysis API", model |-> model_name])
    /\ UNCHANGED <<model_name, classifier, cache, last, returned, hits, ncalls,
                   threadVars, singletonVars, botVars, request_counts, last_reset, now,
                   user_stats, passed, nrequests>>

\* GET /health
Health(path) ==
    /\ Endpoint("GET", path) = "health"
    /\ response' = Response(Request("GET", path), 200,
                            [status |-> "healthy", timestamp |-> now])
    /\ UNCHANGED <<model_name, classifier, cache, last, returned, hits, ncalls,
                   threadVars, singletonVars, botVars, request_counts, last_reset, now,
                   user_stats, passed, nrequests>>

\* a variant: the entry is read as user_stats[user_id], which creates it
GetUserStats_Subscript(path) ==
    /\ Endpoint("GET", path) = "get_user_stats"
    /\ LET user_id == SegmentInt(path[2])
           user_stat == UserStat(user_id)
       IN  /\ user_stats' = [user_stats EXCEPT ![user_id] = user_stat]
           /\ response' = Response(Request("GET", path), 200,
                                   [total_requests |-> user_stat.total,
                                    positive |-> user_stat.positive,
                                    negative |-> user_stat.negative,
                                    neutral |-> user_stat.neutral,
                                    uptime_seconds |-> now - user_stat.start_time])
    /\ UNCHANGED <<model_name, classifier, cache, last, returned, hits, ncalls,
                   threadVars, singletonVars, botVars, request_counts, last_reset, now,
                   passed, nrequests>>

\* GET /stats/{user_id}: get_user_stats
GetUserStats(path) ==
    /\ Endpoint("GET", path) = "get_user_stats"
    /\ LET user_id == SegmentInt(path[2])
           user_stat == IF user_id \in UserIds /\ user_stats[user_id] # None
                        THEN user_stats[user_id]
                        ELSE NewUserStat
       IN  response' = Response(Request("GET", path), 200,
                                [total_requests |-> user_stat.total,
                                 positive |-> user_stat.positive,
                                 negative |-> user_stat.negative,
                                 neutral |-> user_stat.neutral,
                                 uptime_seconds |-> now - user_stat.start_time])
    /\ UNCHANGED <<model_name, classifier, cache, last, returned, hits, ncalls,
                   threadVars, singletonVars, botVars, request_counts, last_reset, now,
                   user_stats, passed, nrequests>>

\* a request that no route matches
NotFound(path) ==
    /\ Endpoint("GET", path) = "404"
    /\ response' = Response(Request("GET", path), 404, [detail |-> "Not Found"])
    /\ UNCHANGED <<model_name, classifier, cache, last, returned, hits, ncalls,
                   threadVars, singletonVars, botVars, request_counts, last_reset, now,
                   user_stats, passed, nrequests>>

\* time passes: more than one window
Tick ==
    /\ now + window + 1 <= MaxSeconds
    /\ now' = now + window + 1
    /\ UNCHANGED <<model_name, classifier, cache, last, returned, hits, ncalls,
                   threadVars, singletonVars, botVars, request_counts, last_reset, user_stats,
                   response, passed, nrequests>>

\* the requests explored are limited in number
Posted(limit, call) == nrequests < limit /\ call

NextApi ==
    \/ \E client \in Clients, text \in ApiTexts :
           \/ PredictUnprocessable(client, text)
           \/ \E user_id \in RequestUserIds :
                  Posted(MaxRequests, Predict(client, text, user_id))
    \/ \E path \in GetPaths :
           \/ Root(path)
           \/ Health(path)
           \/ GetUserStats(path)
           \/ NotFound(path)
    \/ Tick

\* the service after startup: lifespan has called get_analyzer()
InitApi ==
    /\ model_name = DefaultModel
    /\ classifier = None
    /\ cache = <<>>
    /\ last = NoCall
    /\ returned = [t \in PackedTexts |-> None]
    /\ hits = {}
    /\ ncalls = 0
    /\ ThreadsIdle
    /\ loads = 0
    /\ Installed
    /\ ApiIdle
    /\ BotIdle
    /\ split = None

SpecApi == InitApi /\ [][NextApi]_vars

\* one client posting to /predict as fast as it can, without a user id
BurstTexts == {BlankText, HappyText}

NextBurst ==
    \/ \E client \in Clients, text \in BurstTexts :
           Posted(MaxBurst, Predict(client, text, None))
    \/ Tick

SpecBurst == InitApi /\ [][NextBurst]_vars

-----------------------------------------------------------------------------
(* The bot: bot/services.py and the text handler of the bot.               *)

\* cache_limit and history_limit of bot/services.py
cache_limit == 100
history_limit == 50

\* the lengths handle_text compares len(text) with
MinMessageLen == 3
MaxMessageLen == 1000

\* number of calls explored: of handle_text and analyze_text, and of
\* _add_to_history
MaxMessages == 3
MaxAdds == 52

\* the texts of the messages sent to the bot: blank; 2, 3 and 3 characters
\* once trimmed; 1000, 1000 once trimmed, and 1001 characters
ShortMessage == <<" ", "a", "b", " ">>
Abc == <<"a", "b", "c">>
Text1000 == Rep("a", 1000)
MessageTexts ==
    {BlankText, ShortMessage, Abc, <<"\t">> \o Abc \o <<"\n">>, Text1000,
     <<" ">> \o Text1000 \o <<"\n">>, Rep("a", 1001)}

\* the texts analyze_text is called with
BotTexts == {Abc, Text1000}

BotPacked == [t \in MessageTexts \cup BotTexts |-> Pack(t)]

\* "2023-01-01T00:00:00Z", the timestamp of a response
TimestampZ ==
    <<"2", "0", "2", "3", "-", "0", "1", "-", "0", "1", "T", "0", "0", ":", "0", "0",
      ":", "0", "0", "Z">>

RECURSIVE ReplaceZ(_)
\* s.replace("Z", "+00:00")
ReplaceZ(s) ==
    IF s = <<>> THEN <<>>
    ELSE (IF Head(s) = "Z" THEN <<"+", "0", "0", ":", "0", "0">> ELSE <<Head(s)>>)
             \o ReplaceZ(Tail(s))

\* datetime.fromisoformat accepts s: date, T, time and an optional offset
IsIsoFormat(s) ==
    /\ Len(s) \in {19, 25}
    /\ s[5] = "-" /\ s[8] = "-" /\ s[11] = "T" /\ s[14] = ":" /\ s[17] = ":"
    /\ Len(s) = 25 => (s[20] \in {"+", "-"} /\ s[23] = ":")

\* the body of a 200 response of POST /predict as the API builds it
Payload(text, sentiment) ==
    [text |-> BotPacked[text], sentiment |-> sentiment, confidence |-> Rat(95, 100),
     timestamp |-> TimestampZ]

\* the JSON bodies a 200 response may carry: well formed, without the keys
\* after text, and null
Payloads(text) ==
    {Payload(text, sentiment) : sentiment \in {positive, negative}}
        \cup {[text |-> BotPacked[text]], None}

\* the request of analyze_text failed: aiohttp raised
RequestFailed == [raised |-> TRUE]

\* what session.post may give
HttpOutcomes(text) ==
    {[status |-> 200, json |-> data] : data \in Payloads(text)}
        \cup {[status |-> code, json |-> None] : code \in {422, 500}}
        \cup {RequestFailed}

\* bool(value) of a response body
Truthy(value) == value # None

\* lines 94-101 and 123-130 build a SentimentResult from data without raising
Parses(data) ==
    /\ data # None
    /\ {"text", "sentiment", "confidence", "timestamp"} \subseteq DOMAIN data
    /\ IsIsoFormat(ReplaceZ(data.timestamp))

\* bot.services.SentimentResult built from data
BotSentimentResult(data) ==
    [text |-> data.text, sentiment |-> data.sentiment, confidence |-> data.confidence,
     timestamp |-> Pack(ReplaceZ(data.timestamp))]

\* _add_to_cache
AddToCache(rc, text, result) ==
    IF Len(rc) >= cache_limit
    THEN DictSet(Tail(rc), text, result)
    ELSE DictSet(rc, text, result)

\* a variant: the oldest record is dropped at history_limit records already
Overfull_AtLimit(list) == Len(list) >= history_limit

\* line 75: len(user_histories[user_id]) > history_limit
Overfull(list) == Len(list) > history_limit

\* the record _add_to_history appends; a user's records are told apart by
\* their times, which grow: the time is written as the record's number
HistoryRecord(user_id, result) ==
    [timestamp |-> Len(added[user_id]) + 1, result |-> result]

\* _add_to_history
AddToHistory(histories, user_id, result) ==
    LET list == IF user_id \in DOMAIN histories THEN histories[user_id] ELSE <<>>
        appended == Append(list, HistoryRecord(user_id, result))
    IN  [u \in DOMAIN histories \cup {user_id} |->
            IF u # user_id THEN histories[u]
            ELSE IF Overfull(appended) THEN Tail(appended) ELSE appended]

\* get_user_history
GetUserHistory(histories, user_id) ==
    IF user_id \in DOMAIN histories THEN histories[user_id] ELSE <<>>

\* every record appended for the user, the ghost of _add_to_history
Added(user_id, result) ==
    [added EXCEPT ![user_id] = Append(@, HistoryRecord(user_id, result))]

\* `if user_id:` of analyze_text
HasUser(user_id) == user_id # None /\ user_id.int # 0

\* the outcome of an analyze_text call
Called(text, user_id, outcome, result, from_cache) ==
    [op |-> "analyze_text", text |-> BotPacked[text], user_id |-> user_id,
     outcome |-> outcome, result |-> result, from_cache |-> from_cache,
     cache_before |-> result_cache, histories_before |-> user_histories]

\* analyze_text(text, user_id)
AnalyzeText(text, user_id) ==
    LET cached_result == GetFromCache(result_cache, BotPacked[text])
    IN  IF Truthy(cached_result)
        THEN /\ called' =
                    IF Parses(cached_result)
                    THEN Called(text, user_id, "return",
                                BotSentimentResult(cached_result), TRUE)
                    ELSE Called(text, user_id, "raise", None, TRUE)
             /\ UNCHANGED <<result_cache, user_histories, added>>
        ELSE \E out \in HttpOutcomes(text) :
               IF out # RequestFailed /\ out.status = 200
               THEN LET data == out.json
                    IN  /\ result_cache' = AddToCache(result_cache, BotPacked[text], data)
                        /\ IF HasUser(user_id)
                           THEN /\ user_histories' =
                                       AddToHistory(user_histories, user_id.int, data)
                                /\ added' = Added(user_id.int, data)
                           ELSE UNCHANGED <<user_histories, added>>
                        /\ called' =
                               IF Parses(data)
                               THEN Called(text, user_id, "return",
                                           BotSentimentResult(data), FALSE)
                               ELSE Called(text, user_id, "return", None, FALSE)
               ELSE /\ called' = Called(text, user_id, "return", None, FALSE)
                    /\ UNCHANGED <<result_cache, user_histories, added>>

\* a variant: a text of 1000 characters is refused as well
TooLong_Inclusive(text) == Len(text) >= MaxMessageLen

\* line 28: len(text) > 1000
TooLong(text) == Len(text) > MaxMessageLen

\* what handle_text did with a message: its reply and its analyze_text calls
Handled(text, from_user, reply, calls) ==
    [text |-> BotPacked[text], from_user |-> from_user, reply |-> reply,
     calls |-> calls]

\* the variables of the analyzer and of the HTTP service, which the bot's
\* process does not hold
serverVars ==
    <<model_name, classifier, cache, last, returned, hits, ncalls, threadVars,
      singletonVars, apiVars>>

\* handle_text(message)
HandleText(message_text, from_user) ==
    /\ nmessages' = nmessages + 1
    /\ LET text == Strip(message_text)
       IN  IF text = <<>>
           THEN /\ message' = Handled(message_text, from_user, "send a text", <<>>)
                /\ UNCHANGED <<result_cache, user_histories, added, called>>
           ELSE IF Len(text) < MinMessageLen
           THEN /\ message' = Handled(message_text, from_user, "too short", <<>>)
                /\ UNCHANGED <<result_cache, user_histories, added, called>>
           ELSE IF TooLong(text)
           THEN /\ message' = Handled(message_text, from_user, "too long", <<>>)
                /\ UNCHANGED <<result_cache, user_histories, added, called>>
           ELSE /\ AnalyzeText(text, UserId(from_user))
                /\ message' =
                       Handled(message_text, from_user,
                               IF called'.outcome = "return" /\ called'.result # None
                               THEN "result" ELSE "error",
                               <<[text |-> BotPacked[text],
                                  user_id |-> UserId(from_user)]>>)
    /\ UNCHANGED <<split, serverVars>>

\* analyze_text called by itself, as the tests call it
AnalyzeTextCall(text, user_id) ==
    /\ nmessages' = nmessages + 1
    /\ AnalyzeText(text, user_id)
    /\ UNCHANGED <<message, split, serverVars>>

\* _add_to_history called by itself, as the tests call it
AddToHistoryCall(user_id, result) ==
    /\ nmessages' = nmessages + 1
    /\ user_histories' = AddToHistory(user_histories, user_id, result)
    /\ added' = Added(user_id, result)
    /\ called' = [op |-> "_add_to_history", user_id |-> user_id, result |-> result,
                  histories_before |-> user_histories]
    /\ UNCHANGED <<result_cache, message, split, serverVars>>

\* the calls explored are limited in number
Upto(limit, call) == nmessages < limit /\ call

\* the user ids analyze_text is called with by itself
DirectUserIds == {None, UserId(0), UserId(123)}

NextBot ==
    \/ \E message_text \in MessageTexts, from_user \in BotUsers :
           Upto(MaxMessages, HandleText(message_text, from_user))
    \/ \E text \in BotTexts, user_id \in DirectUserIds :
           Upto(MaxMessages, AnalyzeTextCall(text, user_id))

\* both processes after startup, nothing requested yet
InitBot == InitApi

SpecBot == InitBot /\ [][NextBot]_vars

\* the results test_user_history adds
HistoryResults == {Payload(Abc, positive)}

NextHistory ==
    \E user_id \in BotUsers, result \in HistoryResults :
        Upto(MaxAdds, AddToHistoryCall(user_id, result))

SpecHistory == InitBot /\ [][NextHistory]_vars

-----------------------------------------------------------------------------
(* _split_sentences applied to every short text over a small alphabet.     *)

\* the longest text split, and the characters of the texts
MaxSplitLen == 4
SplitAlphabet == {"a", " ", ".", "!", "?"}

\* the texts split: every text of at most MaxSplitLen characters, and the long
\* texts of the analyzer
SplitTexts ==
    UNION {[1..n -> SplitAlphabet] : n \in 0..MaxSplitLen} \cup {LongText, Text2001}

\* a text handed to _split_sentences, the call not yet made
ToSplit(text) == [text |-> text, done |-> FALSE, sentences |-> <<>>]

\* _split_sentences(text) returns
SplitSentencesCall ==
    /\ ~split.done
    /\ split' = [split EXCEPT !.done = TRUE, !.sentences = SplitSentences(split.text)]
    /\ UNCHANGED <<serverVars, result_cache, user_histories, added, called, message,
                   nmessages>>

NextSplit == SplitSentencesCall

InitSplit ==
    /\ model_name = DefaultModel
    /\ classifier = None
    /\ cache = <<>>
    /\ last = NoCall
    /\ returned = [t \in PackedTexts |-> None]
    /\ hits = {}
    /\ ncalls = 0
    /\ ThreadsIdle
    /\ loads = 0
    /\ Installed
    /\ ApiIdle
    /\ BotIdle
    /\ split \in {ToSplit(text) : text \in SplitTexts}

SpecSplit == InitSplit /\ [][NextSplit]_vars

-----------------------------------------------------------------------------
(* Properties.                                                             *)

\* the latest call was analyze(text) and it returned a payload
Returned == last.outcome = "return"

\* the latest call computed its result (cache miss) and returned it
Computed == Returned /\ ~last.from_cache

\* the argument of the latest call
LastText == CHOOSE t \in AllTexts : Packed[t] = last.text

\* the classifier outcomes of the latest call, labels as character sequences
LastOuts ==
    [i \in 1..Len(last.outs) |->
        CHOOSE out \in OutcomesOf(model_name) : Shown(out) = last.outs[i]]

OnLongPath == Len(LastText) > LongTextThreshold

\* the predictions of the latest call's classifier invocations that did not raise
Succeeded == SelectSeq(LastOuts, LAMBDA o : ~o.raised)

\* the text holds one of the idioms of the irony list
HasIdiom(text) ==
    \E phrase \in _IRONY_PHRASES : phrase # <<>> /\ Contains(phrase, Lower(text))

\* what the classifier's output resolves to before any irony correction
Resolved == AnalyzeWithModel(LastText, FALSE, model_name, LastOuts).value

\* C1: every analyze call that returns, from the cache, on the short path or on
\* the long-text path, and whatever labels the classifier gave (recognised in
\* either case, or unknown), reports a sentiment that is one of positive,
\* negative, neutral.
C1_SentimentEnumerated == Returned => last.result.sentiment \in Sentiments

\* C1 witness: a long-text call returned after the classifier gave an unknown
\* label, with a short text analysed before it
C1_Witness ==
    /\ Returned /\ OnLongPath
    /\ \E i \in 1..Len(last.outs) : ~last.outs[i].raised /\ last.outs[i].label = Pack(LABEL_2)
    /\ returned[Packed[HappyText]] # None

\* C2 (as claimed): whenever a computed result is for a text that holds an idiom
\* of the irony list and the classifier's output resolves to positive with score
\* c, the result is negative with confidence max(0.1, c * 0.5), on the short and
\* on the long-text path.
C2_IronyRuleAnyLength ==
    (Computed /\ HasIdiom(LastText) /\ Resolved.sentiment = positive)
        => /\ last.result.sentiment = negative
           /\ RatEq(last.result.confidence,
                    IF 10 * Resolved.confidence.n > 2 * Resolved.confidence.d
                    THEN Rat(Resolved.confidence.n, 2 * Resolved.confidence.d)
                    ELSE Rat(1, 10))

\* C3 (as claimed): a computed result for a text that holds none of the idioms
\* of the irony list has irony_detected = FALSE and carries the classifier's
\* resolved sentiment and score unchanged.
C3_NoIdiomNoIrony ==
    (Computed /\ ~HasIdiom(LastText))
        => /\ last.result.irony_detected = FALSE
           /\ last.result.sentiment = Resolved.sentiment
           /\ RatEq(last.result.confidence, Resolved.confidence)

\* C4: while nothing has been evicted (the cache was below capacity), a call
\* analyze(T) that follows a successful analyze(T) returns the payload of that
\* earlier call, equal in every field, and is answered from the cache: one cache
\* read, no irony detection, no model load, no classifier call, cache unchanged.
C4_SecondCallFromCache ==
    (last.outcome # "none" /\ last.earlier # None
     /\ Len(last.cache_before) < CacheCapacity)
        => /\ Returned
           /\ last.from_cache
           /\ last.result = last.earlier
           /\ ~last.irony_run
           /\ last.model_loads = 0
           /\ last.calls = <<>>
           /\ cache = last.cache_before

\* C4 witness: the second analyze of the long text, served from the cache
C4_Witness ==
    /\ Returned /\ last.from_cache /\ last.text = Packed[LongText]
    /\ last.earlier # None /\ last.result = last.earlier

\* C5: analyze(T) with T empty or made of whitespace only ends in ValueError, and
\* in that call the cache is neither read nor changed, the model is not loaded
\* and the classifier is not invoked.
C5_BlankRejected ==
    (last.outcome # "none" /\ \A i \in 1..Len(LastText) : LastText[i] \in Whitespace)
        => /\ last.outcome = "ValueError"
           /\ last.cache_reads = 0
           /\ cache = last.cache_before
           /\ last.model_loads = 0
           /\ last.calls = <<>>
           /\ ~last.irony_run

\* C5 witness: a whitespace-only text was rejected while the cache held an entry
C5_Witness ==
    /\ last.outcome = "ValueError" /\ last.text = Packed[BlankText]
    /\ cache # <<>>

\* C6: the cache never holds more than CacheCapacity entries; a call answered
\* from the cache leaves the cache and its order as they were; a computed result
\* is appended as the newest entry, and when the cache was full the one entry
\* dropped is the oldest inserted one (the head), also when that entry was the
\* one read most recently by a cache hit.
C6_CacheBoundFifo ==
    LET entry == [key |-> <<"md5", last.text>>, value |-> last.result]
    IN  /\ Len(cache) <= CacheCapacity
        /\ (Returned /\ last.from_cache) => cache = last.cache_before
        /\ (Computed /\ Len(last.cache_before) < CacheCapacity)
               => cache = Append(last.cache_before, entry)
        /\ (Computed /\ Len(last.cache_before) >= CacheCapacity)
               => cache = Append(Tail(last.cache_before), entry)

\* C6 witness: the cache was full, its oldest entry (HappyText) had been read by
\* a cache hit, and storing a new text evicted exactly that entry
C6_Witness ==
    /\ Computed
    /\ Len(last.cache_before) = CacheCapacity
    /\ Head(last.cache_before).key = GetCacheKey(HappyText)
    /\ Packed[HappyText] \in hits
    /\ ~HasKey(cache, GetCacheKey(HappyText))
    /\ Len(cache) = CacheCapacity

\* C7: every payload analyze returns carries a confidence in [0, 1]: on the
\* short path, after irony correction, on the long-text aggregation and on the
\* all-units-failed fallback (the classifier's scores lie in [0, 1]).
C7_ConfidenceInUnitInterval ==
    Returned => /\ RatLe(Rat(0, 1), last.result.confidence)
                /\ RatLe(last.result.confidence, Rat(1, 1))

\* C7 witness: a long text was aggregated over a unit that succeeded, after a
\* short text had its confidence corrected for irony down to the floor 0.1
C7_Witness ==
    /\ Computed /\ OnLongPath /\ Succeeded # <<>>
    /\ returned[Packed[IronicText]] # None
    /\ returned[Packed[IronicText]].sentiment = negative
    /\ RatEq(returned[Packed[IronicText]].confidence, Rat(1, 10))

\* C8: on the short path, when the classifier raises, analyze ends in
\* RuntimeError, the classifier was invoked exactly once (on the text), and the
\* cache is what it was before the call, with no entry for the text.
C8_ShortFailurePropagates ==
    (last.outcome # "none" /\ ~OnLongPath /\ last.outs # <<>> /\ last.outs[1].raised)
        => /\ last.outcome = "RuntimeError"
           /\ last.calls = <<last.text>>
           /\ cache = last.cache_before
           /\ ~HasKey(cache, <<"md5", last.text>>)

\* C8 witness: the classifier raised on a short text while the cache held an
\* entry
C8_Witness ==
    /\ last.outcome = "RuntimeError" /\ last.outs = <<Raised>>
    /\ last.text = Packed[IronicText]
    /\ cache # <<>>

\* C9: on the long-text path, when the classification of every unit fails,
\* analyze returns normally with sentiment neutral and confidence 0.5.
C9_AllUnitsFailedFallback ==
    (last.outcome # "none" /\ OnLongPath /\ last.outs # <<>>
     /\ \A i \in 1..Len(last.outs) : last.outs[i].raised)
        => /\ Returned
           /\ last.result.sentiment = neutral
           /\ RatEq(last.result.confidence, Rat(1, 2))

\* C9 witness: both units of the long text failed and the call returned
C9_Witness ==
    /\ Returned /\ OnLongPath
    /\ last.outs = <<Raised, Raised>>

\* the number of succeeded predictions whose upper-cased label holds the word
SucceededCount(word) ==
    Cardinality({i \in 1..Len(Succeeded) : Contains(word, Upper(Succeeded[i].label))})

\* C10: on the long-text path a failing unit does not end the request: the call
\* returns, the classifier was invoked on every unit in order (each cut to
\* UnitMaxLen characters), and when some unit succeeded the confidence is the
\* mean score, and the sentiment the strict plurality (else neutral), of exactly
\* the units that succeeded.
C10_FailedUnitsSkipped ==
    (last.outcome # "none" /\ OnLongPath /\ ~last.from_cache /\ last.outs # <<>>)
        => LET sentences == SplitSentences(LastText)
               total == SumScores(Succeeded)
               pos == SucceededCount(POSITIVE)
               neg == SucceededCount(NEGATIVE)
               neu == Len(Succeeded) - pos - neg
           IN  /\ Returned
               /\ Len(last.calls) = Len(sentences)
               /\ \A i \in 1..Len(sentences) :
                      last.calls[i] = Pack(Prefix(sentences[i], UnitMaxLen))
               /\ Succeeded # <<>> =>
                      /\ RatEq(last.result.confidence,
                               Rat(total.n, total.d * Len(Succeeded)))
                      /\ last.result.sentiment =
                             IF pos > neg /\ pos > neu THEN positive
                             ELSE IF neg > pos /\ neg > neu THEN negative
                             ELSE neutral

\* C10 witness: the first unit failed, the second was still classified, and the
\* call returned the second unit's score
C10_Witness ==
    /\ Returned /\ OnLongPath
    /\ Len(last.outs) = 2 /\ last.outs[1].raised /\ ~last.outs[2].raised
    /\ Len(last.calls) = 2
    /\ RatEq(last.result.confidence, last.outs[2].score)

\* the number of succeeded predictions whose case-normalised label the closed
\* table (unknown labels to neutral) takes to the sentiment
TableCount(sentiment) ==
    Cardinality({i \in 1..Len(Succeeded) :
                    LabelMapGet(Upper(Succeeded[i].label)) = sentiment})

\* the label with the strictly greatest of the three counts, neutral when there
\* is none
StrictPlurality(pos, neg, neu) ==
    IF pos > neg /\ pos > neu THEN positive
    ELSE IF neg > pos /\ neg > neu THEN negative
    ELSE neutral

\* C11 (as claimed): on the long-text path with at least one unit classified,
\* the sentiment is the label whose count among the succeeded units is strictly
\* greater than both other counts, and neutral when no label has such a count
\* (every tie included); a unit counts for the label its raw label resolves to.
C11_StrictPluralityOfLabels ==
    (Computed /\ OnLongPath /\ Succeeded # <<>>)
        => last.result.sentiment =
               StrictPlurality(TableCount(positive), TableCount(negative),
                               TableCount(neutral))

\* the sentence units of the text that are not empty
NonEmptyUnits(text) ==
    SelectSeq(SplitSentences(text), LAMBDA unit : Strip(unit) # <<>>)

\* C12: a call that missed the cache and had the model at hand invokes the
\* classifier, for a text of at most LongTextThreshold characters (that length
\* included), exactly once and on the whole text; for a longer text once per
\* non-empty sentence unit, in order, on the unit cut to its first UnitMaxLen
\* characters, and never on the whole text.
C12_PathSelection ==
    (last.cache_reads = 1 /\ ~last.from_cache /\ ~last.init_failed)
        => IF Len(LastText) <= LongTextThreshold
           THEN last.calls = <<last.text>>
           ELSE LET units == NonEmptyUnits(LastText)
                IN  /\ Len(last.calls) = Len(units)
                    /\ \A i \in 1..Len(units) :
                           /\ last.calls[i] =
                                  Pack(SubSeq(units[i], 1,
                                              IF Len(units[i]) < UnitMaxLen
                                              THEN Len(units[i]) ELSE UnitMaxLen))
                           /\ last.calls[i] # last.text

\* C12 witness: the text of exactly 2000 characters went to the classifier whole
\* and in one call, and then the text of 2001 characters went unit by unit, its
\* first unit cut to 1000 characters
C12_Witness ==
    /\ last.text = Packed[Text2001] /\ ~last.from_cache
    /\ last.calls = <<Pack(Rep("a", 1000)), Pack(Rep("b", 500) \o <<"?">>),
                      Pack(Rep("c", 396) \o <<".">>)>>
    /\ returned[Packed[Text2000]] # None
    /\ HasKey(cache, GetCacheKey(Text2000))

\* C13 (as claimed): wherever a raw label is resolved it is resolved by the
\* closed table on the case-normalised label, unknown labels to neutral: on the
\* short path the sentiment (before the irony correction) is the table's value
\* for the one label, and on the long-text path each succeeded unit counts for
\* the table's value of its label.
C13_SameTableOnBothPaths ==
    (Computed /\ Succeeded # <<>>)
        => LET short == LabelMapGet(Upper(Succeeded[1].label))
               long == StrictPlurality(TableCount(positive), TableCount(negative),
                                       Len(Succeeded) - TableCount(positive)
                                           - TableCount(negative))
           IN  IF OnLongPath
               THEN last.result.sentiment = long
               ELSE last.result.sentiment =
                        IF last.result.irony_detected /\ short = positive
                        THEN negative ELSE short

\* the lines of _analyze_with_model: loading the model and running the classifier
InferenceLines == {"init_model", "pipeline", "classify"}

\* the lines inside a with self._cache_lock block
LockedLines == {"cache_get", "cache_evict", "cache_store"}

AllIdle == \A t \in Threads : pc[t] = "idle"

\* C14 (as claimed): whatever the interleaving of the analyze calls of two
\* threads on one analyzer, pipeline(...) is constructed at most once, and all
\* inference runs on one and the same handle.
C14_ModelInitializedOnce == loads <= 1 /\ Cardinality(used) <= 1

\* C15: a thread that is loading the model or running the classifier does not
\* hold the cache lock, so a thread waiting to look up or to store is kept out
\* only by a thread that is itself inside a cache block.
C15_NoLockAcrossInference ==
    \A t \in Threads :
        pc[t] \in InferenceLines
            => /\ t \notin _cache_lock
               /\ \A u \in _cache_lock : pc[u] \in LockedLines

\* C15 witness: one thread runs the classifier while the other is inside
\* _save_to_cache, holding the lock
C15_Witness ==
    /\ pc["t1"] = "classify"
    /\ pc["t2"] = "cache_evict"
    /\ _cache_lock = {"t2"}

\* C16: at most one thread is inside a block guarded by the cache lock; the
\* cache never holds more than CacheCapacity entries; and when every call has
\* returned, each text a call has stored a result for is in the cache, unless
\* its key was deleted by the capacity rule since, with the result of one of the
\* calls that analysed it.
C16_CacheConsistentUnderThreads ==
    /\ Cardinality({t \in Threads : pc[t] \in LockedLines}) <= 1
    /\ Len(cache) <= CacheCapacity
    /\ AllIdle =>
           \A pair \in computed :
               LET cache_key == <<"md5", pair[1]>>
               IN  cache_key \notin evicted
                       => /\ HasKey(cache, cache_key)
                          /\ <<pair[1], GetFromCache(cache, cache_key)>> \in computed

\* C16 witness: two calls that overlapped analysed the same text with different
\* results and both stored while the cache was at its capacity; all have
\* returned
C16_Witness ==
    /\ AllIdle
    /\ evicted # {}
    /\ \E p, q \in computed : p[1] = q[1] /\ p[2] # q[2]
    /\ HasKey(cache, GetCacheKey(IronicText))

\* C17 (as claimed): after any get_analyzer or set_analyzer call there is one
\* current analyzer and it is what the call returned; get_analyzer on an
\* existing analyzer returns that same instance with its cache as it was; and
\* once set_analyzer(m) has been called the current analyzer is the instance it
\* installed and its model_name is m.
C17_SingletonAsClaimed ==
    /\ answer.call # "none" => (_analyzer # None /\ answer.instance = _analyzer)
    /\ (answer.call = "get_analyzer" /\ answer.before # None)
           => (answer.instance = answer.before /\ answer.cache = answer.cache_before)
    /\ installed # None
           => (_analyzer = installed.instance /\ model_name = installed.name)

\* C17 (amended): as claimed, except that set_analyzer("") installs an analyzer
\* of the default model: the model_name of the current analyzer is m when m is
\* not empty and the configured default model otherwise.
C17_SingletonEmptyNameDefault ==
    /\ answer.call # "none" => (_analyzer # None /\ answer.instance = _analyzer)
    /\ (answer.call = "get_analyzer" /\ answer.before # None)
           => (answer.instance = answer.before /\ answer.cache = answer.cache_before)
    /\ installed # None
           => /\ _analyzer = installed.instance
              /\ installed.name # "" => model_name = installed.name
              /\ installed.name = "" => model_name = DefaultModel

\* C17 witness: set_analyzer(CustomModel) replaced an analyzer, a text was
\* analysed on the new instance, and get_analyzer then returned that instance
\* with the cache holding the text
C17_Witness ==
    /\ answer.call = "get_analyzer"
    /\ installed # None /\ installed.name = CustomModel
    /\ installed.instance = Instance(2)
    /\ answer.instance = installed.instance
    /\ answer.model_name = CustomModel
    /\ HasKey(answer.cache, GetCacheKey(HappyText))

\* C18: for any client at most max_requests (30) POST /predict requests are
\* handed to predict, and so to the analyzer, between two resets of the
\* counters, that is within one window of 60 seconds; a further request of the
\* window is answered with 429 instead.
C18_AtMostThirtyPerWindow ==
    \A client \in Clients : passed[client] <= max_requests

\* the response to a POST /predict whose text is empty or only whitespace
BlankPredictResponse ==
    /\ response # None
    /\ response.request = Request("POST", <<"predict">>)
    /\ \E text \in ApiTexts : IsBlank(text) /\ response.text = Packed[text]

\* C19: a POST /predict whose text is empty or consists only of whitespace is
\* answered with a 4xx status (422 for the empty string), never with 500, and
\* the refusal is the validation's.
C19_BlankTextIsClientError ==
    BlankPredictResponse
        => /\ response.status_code \in 400..499
           /\ response.text = Packed[EmptyText] => response.status_code = 422

\* C20: GET /stats, the path without a user id that fetch_stats requests, is
\* answered with status 200 and a body that carries total_requests, positive,
\* negative and neutral.
C20_StatsWithoutUserId ==
    (response # None /\ response.request = Request("GET", <<"stats">>))
        => /\ response.status_code = 200
           /\ {"total_requests", "positive", "negative", "neutral"}
                  \subseteq DOMAIN response.body

\* the replies of handle_text that refuse a message
Rejections == {"send a text", "too short", "too long"}

\* C21: handle_text calls analyze_text, once and with the trimmed text and the
\* sender's id, for every message whose trimmed text is 3 to 1000 characters
\* long; every other message is answered with a rejection and no analyze_text
\* call is made.
C21_AnalysedExactlyInRange ==
    message # None =>
        \A t \in MessageTexts :
            message.text = BotPacked[t] =>
                IF Len(Strip(t)) >= 3 /\ Len(Strip(t)) <= 1000
                THEN /\ message.calls = <<[text |-> BotPacked[Strip(t)],
                                           user_id |-> UserId(message.from_user)]>>
                     /\ message.reply \notin Rejections
                ELSE /\ message.calls = <<>>
                     /\ message.reply \in Rejections

\* C21 witness: a message of 1002 characters whose trimmed text has 1000 was
\* analysed and answered with the result
C21_Witness ==
    /\ message # None
    /\ message.text = BotPacked[<<" ">> \o Text1000 \o <<"\n">>]
    /\ Len(message.calls) = 1
    /\ message.calls[1].text = BotPacked[Text1000]
    /\ message.reply = "result"

\* C22: analyze_text never raises: whatever the text, the response and the
\* result cache, the call returns, a SentimentResult or None.
C22_AnalyzeTextNeverRaises ==
    (called # None /\ called.op = "analyze_text") => called.outcome = "return"

\* the last n elements of a list
LastOf(list, n) == SubSeq(list, Len(list) - n + 1, Len(list))

\* C23: after any sequence of _add_to_history calls the history of every user
\* holds at most history_limit (50) records, which are the records added last
\* for that user in the order they were added, so the latest is among them;
\* and a call changes the history of no other user.
C23_HistoryKeepsLatestFifty ==
    /\ \A u \in BotUsers :
           LET history == GetUserHistory(user_histories, u)
               n == IF Len(added[u]) < 50 THEN Len(added[u]) ELSE 50
           IN  /\ Len(history) <= 50
               /\ history = LastOf(added[u], n)
               /\ added[u] # <<>> => history[Len(history)] = added[u][Len(added[u])]
    /\ (called # None /\ called.op = "_add_to_history")
           => \A u \in BotUsers \ {called.user_id} :
                  GetUserHistory(user_histories, u)
                      = GetUserHistory(called.histories_before, u)

\* C23 witness: the 51st record of user 123 was added: the first was dropped
\* and the history of user 456, who has records too, is as it was
C23_Witness ==
    /\ called # None /\ called.op = "_add_to_history" /\ called.user_id = 123
    /\ Len(added[123]) = 51
    /\ Len(GetUserHistory(user_histories, 123)) = 50
    /\ GetUserHistory(user_histories, 123)[1].timestamp = 2
    /\ GetUserHistory(user_histories, 456) # <<>>

\* C24: a computed result whose resolved sentiment is negative or neutral, or
\* whose irony flag is false, carries the resolved sentiment and the score
\* unchanged; on the short path these are the table's translation of the
\* classifier's label and the classifier's score, which is also what
\* _analyze_with_model gives for the same outputs with the flag false.
C24_OnlyPositiveCorrected ==
    /\ (Computed /\ (Resolved.sentiment # positive \/ ~last.result.irony_detected))
           => /\ last.result.sentiment = Resolved.sentiment
              /\ last.result.confidence = Resolved.confidence
              /\ ~OnLongPath
                     => /\ last.result.sentiment = LabelMapGet(Upper(LastOuts[1].label))
                        /\ last.result.confidence = LastOuts[1].score
    /\ (Computed /\ ~OnLongPath)
           => /\ Resolved.sentiment = LabelMapGet(Upper(LastOuts[1].label))
              /\ Resolved.confidence = LastOuts[1].score
              /\ ~Resolved.irony_detected

\* C24 witness: a short text that holds an idiom was computed with the irony
\* flag set, the classifier said negative with score 0.9, and the result is
\* negative with confidence 0.9
C24_Witness ==
    /\ Computed /\ ~OnLongPath /\ HasIdiom(LastText)
    /\ last.result.irony_detected
    /\ LastOuts[1].label = RAW_negative /\ LastOuts[1].score = Rat(90, 100)
    /\ last.result.sentiment = negative
    /\ last.result.confidence = Rat(90, 100)

RECURSIVE Joined(_)
\* the units one after the other
Joined(units) == IF units = <<>> THEN <<>> ELSE Head(units) \o Joined(Tail(units))

\* the characters of s that are not whitespace, in order
NonWhitespace(s) == SelectSeq(s, LAMBDA c : c \notin Whitespace)

\* what follows the last terminator of the text
Remainder(text) ==
    LET ends == {i \in 1..Len(text) : text[i] \in Terminators}
        from == IF ends = {} THEN 1 ELSE (CHOOSE i \in ends : \A j \in ends : j <= i) + 1
    IN  SubSeq(text, from, Len(text))

\* C25: the units _split_sentences returns are in text order and their
\* non-whitespace characters, concatenated, are those of the text; every unit
\* but possibly the last ends with '.', '!' or '?'; no unit holds a terminator
\* before its last character; and a non-blank remainder after the last
\* terminator is the final unit.
C25_SplitSentences ==
    split.done =>
        LET units == split.sentences
        IN  /\ NonWhitespace(Joined(units)) = NonWhitespace(split.text)
            /\ \A i \in 1..Len(units) :
                   /\ units[i] # <<>>
                   /\ i < Len(units) => units[i][Len(units[i])] \in Terminators
                   /\ \A j \in 1..(Len(units[i]) - 1) : units[i][j] \notin Terminators
            /\ Strip(Remainder(split.text)) # <<>>
                   => /\ units # <<>>
                      /\ units[Len(units)] = Strip(Remainder(split.text))

\* C25 witness: "a. a" was split into "a." and the remainder "a"
C25_Witness ==
    /\ split.done
    /\ split.text = <<"a", ".", " ", "a">>
    /\ split.sentences = <<(<<"a", ".">>), (<<"a">>)>>

\* C26: every analyze_text call that is given a user id and returns a
\* SentimentResult has appended exactly one record, holding that result's
\* data, to the history of that user, whether the text was analysed before or
\* not.
C26_EveryRequestInHistory ==
    (/\ called # None /\ called.op = "analyze_text"
     /\ called.user_id # None
     /\ called.outcome = "return" /\ called.result # None)
        => LET u == called.user_id.int
               before == GetUserHistory(called.histories_before, u)
               history == GetUserHistory(user_histories, u)
           IN  /\ history # <<>>
               /\ history = Append(before, history[Len(history)])
               /\ history[Len(history)].result # None
               /\ history[Len(history)].result.text = called.result.text
               /\ history[Len(history)].result.sentiment = called.result.sentiment

\* C27: an analyze_text call that returns None leaves result_cache and
\* user_histories as they were before the call.
C27_FailedCallChangesNothing ==
    (/\ called # None /\ called.op = "analyze_text"
     /\ called.outcome = "return" /\ called.result = None)
        => /\ result_cache = called.cache_before
           /\ user_histories = called.histories_before


\* C29: an entry is evicted only to make room for a key that is not cached, so
\* once an entry has been evicted, which takes a full cache, the cache holds
\* CacheCapacity entries whenever no thread is inside a with block on the
\* lock, also when two callers have analysed the same text at the same time
\* and both have stored it.
C29_SizeStaysAtCapacity ==
    (_cache_lock = {} /\ evicted # {}) => Len(cache) = CacheCapacity

\* the counters of a user: total, positive, negative, neutral
Counters(stat) ==
    IF stat = None THEN <<0, 0, 0, 0>>
    ELSE <<stat.total, stat.positive, stat.negative, stat.neutral>>

\* the index in Counters of a sentiment's counter
CounterOf(sentiment) ==
    IF sentiment = positive THEN 2 ELSE IF sentiment = negative THEN 3 ELSE 4

\* C28: starting from empty statistics, every step keeps total = positive +
\* negative + neutral for every user; a POST /predict answered with 200 that
\* carried the user's id adds one to total and one to the counter of the
\* sentiment it answered, and to no other; every other step, a failing request
\* and a request without user id among them, leaves the user's statistics as
\* they were.
C28_CountersAddUp ==
    [][\A u \in UserIds :
          LET before == Counters(user_stats[u])
              after == Counters(user_stats'[u])
          IN  /\ after[1] = after[2] + after[3] + after[4]
              /\ IF /\ nrequests' = nrequests + 1
                    /\ response'.status_code = 200
                    /\ response'.user_id = UserId(u)
                 THEN \A i \in 1..4 :
                          after[i] =
                              IF i = 1 \/ i = CounterOf(response'.body.sentiment)
                              THEN before[i] + 1 ELSE before[i]
                 ELSE user_stats'[u] = user_stats[u]]_vars

\* C28 witness: two requests of user 123 were answered, the second from the
\* analyzer's cache, and a request of the user has failed since
C28_Witness ==
    /\ user_stats[123] # None
    /\ user_stats[123].total = 2
    /\ response # None /\ response.status_code = 500 /\ response.user_id = UserId(123)
    /\ hits # {}

\* the latest response answers GET /stats/{user_id}
StatsResponse(resp) ==
    /\ resp # None
    /\ resp.request.method = "GET"
    /\ Endpoint("GET", resp.request.path) = "get_user_stats"

\* C30: a step that answers GET /stats/{user_id} leaves user_stats unchanged,
\* for a user that has an entry and for one that has none; for the latter no
\* entry is created and every counter is reported as zero.
C30_StatsReadOnly ==
    [][StatsResponse(response')
          => /\ user_stats' = user_stats
             /\ user_stats[SegmentInt(response'.request.path[2])] = None
                    => /\ response'.status_code = 200
                       /\ response'.body.total_requests = 0
                       /\ response'.body.positive = 0
                       /\ response'.body.negative = 0
                       /\ response'.body.neutral = 0]_vars

\* C30 witness: GET /stats/123 was answered with zeros after requests had been
\* served, none of them counted for user 123, who still has no entry
C30_Witness ==
    /\ StatsResponse(response)
    /\ response.body.total_requests = 0
    /\ user_stats[123] = None
    /\ nrequests > 0
====
